---- MODULE Spec2Model ----
(***************************************************************************)
(* Model of python-service/inference_service.py (LinuxHello inference      *)
(* service): the SCRFD output classifier, per-scale decoder, coordinate    *)
(* remapper, greedy NMS and IoU of FaceDetector, the aligner/embedding     *)
(* path of FaceRecognizer, and the DetectFaces / ExtractEmbedding handlers *)
(* of InferenceServicer running on the gRPC thread pool.                   *)
(*                                                                         *)
(* Number representation.  The Python code computes in binary floating     *)
(* point; the model computes with exact integers and fractions:            *)
(*   - a confidence or confidence threshold is an integer number of        *)
(*     hundredths (0.9 is 90, 0.5 is 50);                                  *)
(*   - an IoU value or IoU threshold is a fraction <<num, den>>, den > 0;  *)
(*   - a coordinate in the 640x640 model space is an integer pixel; a      *)
(*     coordinate in the original image is an integer number of            *)
(*     1/CoordDen pixel.  Dividing by scale = 640 / max(h, w) is           *)
(*     multiplying by max(h, w) / 640, which is exact in that unit for the *)
(*     images of the model: their longer side is a multiple of 320.        *)
(***************************************************************************)
EXTENDS Integers, Sequences, FiniteSets, TLC

(***************************************************************************)
(* Bounds of the model.                                                    *)
(***************************************************************************)
\* largest coordinate of the boxes handed to iou on its own
MaxCoord == 2
\* longest candidate list handed to nms on its own
MaxDets == 3
\* DetectFaces requests in flight at the same time
NumClients == 2
\* largest regression output of the decoded anchors; the smallest is -1
MaxReg == 1
\* longest list of arbitrary output tensors handed to the classifier
MaxOutputs == 3
\* most scales of the complete models handed to the classifier
MaxScales == 6
\* most landmark points of an ExtractEmbedding request
MaxLandmarks == 5

(***************************************************************************)
(* Arithmetic helpers.                                                     *)
(***************************************************************************)
\* Python's max(a, b)
Max(a, b) == IF a >= b THEN a ELSE b

\* Python's min(a, b)
Min(a, b) == IF a <= b THEN a ELSE b

\* the float 0.0 returned by iou
Zero == <<0, 1>>

\* p < q on fractions with positive denominators
RatLt(p, q) == p[1] * q[2] < q[1] * p[2]

\* p <= q on fractions with positive denominators
RatLe(p, q) == p[1] * q[2] <= q[1] * p[2]

\* p = q on fractions with positive denominators
RatEq(p, q) == p[1] * q[2] = q[1] * p[2]

Range(s) == {s[i] : i \in DOMAIN s}

(***************************************************************************)
(* FaceDetector.iou                                                        *)
(***************************************************************************)
\* mutant: the early return for an empty intersection is dropped
iou_NoEmptyCheck(box1, box2) ==
    LET x1 == Max(box1[1], box2[1])
        y1 == Max(box1[2], box2[2])
        x2 == Min(box1[3], box2[3])
        y2 == Min(box1[4], box2[4])
        intersection == (x2 - x1) * (y2 - y1)
        area1 == (box1[3] - box1[1]) * (box1[4] - box1[2])
        area2 == (box2[3] - box2[1]) * (box2[4] - box2[2])
        union == area1 + area2 - intersection
    IN  IF union > 0 THEN <<intersection, union>> ELSE Zero

iou(box1, box2) ==
    LET x1_1 == box1[1]
        y1_1 == box1[2]
        x2_1 == box1[3]
        y2_1 == box1[4]
        x1_2 == box2[1]
        y1_2 == box2[2]
        x2_2 == box2[3]
        y2_2 == box2[4]
        x1 == Max(x1_1, x1_2)
        y1 == Max(y1_1, y1_2)
        x2 == Min(x2_1, x2_2)
        y2 == Min(y2_1, y2_2)
        intersection == (x2 - x1) * (y2 - y1)
        area1 == (x2_1 - x1_1) * (y2_1 - y1_1)
        area2 == (x2_2 - x1_2) * (y2_2 - y1_2)
        union == area1 + area2 - intersection
    IN  IF x2 <= x1 \/ y2 <= y1
        THEN Zero
        ELSE IF union > 0 THEN <<intersection, union>> ELSE Zero

(***************************************************************************)
(* FaceDetector.nms                                                        *)
(***************************************************************************)
\* mutant: the sort is ascending
InsertByConfidence_Ascending(sorted, d) ==
    LET k == Cardinality({i \in 1..Len(sorted) : sorted[i].confidence <= d.confidence})
    IN  SubSeq(sorted, 1, k) \o <<d>> \o SubSeq(sorted, k + 1, Len(sorted))

\* mutant: the sort is not stable, equal confidences come out reversed
InsertByConfidence_Unstable(sorted, d) ==
    LET k == Cardinality({i \in 1..Len(sorted) : sorted[i].confidence > d.confidence})
    IN  SubSeq(sorted, 1, k) \o <<d>> \o SubSeq(sorted, k + 1, Len(sorted))

\* one insertion of the stable descending sort: d, which came later in the
\* input than everything in sorted, goes behind every element whose
\* confidence is not smaller
InsertByConfidence(sorted, d) ==
    LET k == Cardinality({i \in 1..Len(sorted) : sorted[i].confidence >= d.confidence})
    IN  SubSeq(sorted, 1, k) \o <<d>> \o SubSeq(sorted, k + 1, Len(sorted))

RECURSIVE SortByConfidence(_)
\* sorted(detections, key=lambda x: x['confidence'], reverse=True)
SortByConfidence(dets) ==
    IF dets = <<>>
    THEN <<>>
    ELSE InsertByConfidence(SortByConfidence(SubSeq(dets, 1, Len(dets) - 1)),
                            dets[Len(dets)])

\* mutant: the comparison with the threshold is not strict
NmsSurvives_NotStrict(current, d, threshold) ==
    RatLe(iou(current.bbox, d.bbox), threshold)

\* the condition of the list comprehension that filters overlapping boxes
NmsSurvives(current, d, threshold) ==
    RatLt(iou(current.bbox, d.bbox), threshold)

\* mutant: the head is not popped off the remaining list
NmsFilter_HeadStays(dets, threshold) ==
    LET current == Head(dets)
    IN  SelectSeq(dets, LAMBDA d : NmsSurvives(current, d, threshold))

\* the remaining list after one iteration of the while loop
NmsFilter(dets, threshold) ==
    LET current == Head(dets)
    IN  SelectSeq(Tail(dets), LAMBDA d : NmsSurvives(current, d, threshold))

RECURSIVE NmsLoop(_, _, _)
\* the while loop run to completion
NmsLoop(dets, keep, threshold) ==
    IF dets = <<>>
    THEN keep
    ELSE NmsLoop(NmsFilter(dets, threshold), Append(keep, Head(dets)), threshold)

\* FaceDetector.nms as one call
nms(dets, threshold) ==
    IF Len(dets) = 0 THEN <<>> ELSE NmsLoop(SortByConfidence(dets), <<>>, threshold)

(***************************************************************************)
(* Tensors.  An output tensor of the detection network is a record         *)
(*   [shape |-> the numpy shape, hot |-> index :> values]                  *)
(* hot holds the entries that are not zero: for a score tensor the index   *)
(* is the position in reshape(-1) and the value <<score>>, for a box or    *)
(* landmark tensor the index is the row and the value the 4 or 10 offsets. *)
(* Every entry outside hot is zero.                                        *)
(***************************************************************************)
\* self.input_size[0], the side of the square model input
InputSide == 640

ZeroRow(c) == [k \in 1..c |-> 0]

\* arr.ndim
Ndim(arr) == Len(arr.shape)

\* lines 302-308: drop a batch dimension of 1, make a 1-D array a column
Normalise(arr) ==
    LET a1 == IF Ndim(arr) = 3 /\ arr.shape[1] = 1
              THEN [arr EXCEPT !.shape = Tail(arr.shape)]
              ELSE arr
    IN  IF Ndim(a1) < 2 /\ Len(a1.shape) = 1
        THEN [a1 EXCEPT !.shape = <<a1.shape[1], 1>>]
        ELSE a1

\* arr.shape[-1] of the normalised array
Cols(arr) == Normalise(arr).shape[Ndim(Normalise(arr))]

\* arr.shape[0] of the normalised array
Rows(arr) == Normalise(arr).shape[1]

\* mutant: the sort by anchor count is ascending
InsertByRows_Ascending(sorted, e) ==
    LET k == Cardinality({i \in 1..Len(sorted) : sorted[i][1] <= e[1]})
    IN  SubSeq(sorted, 1, k) \o <<e>> \o SubSeq(sorted, k + 1, Len(sorted))

\* one insertion of list.sort(key=lambda x: x[0], reverse=True), a stable sort
InsertByRows(sorted, e) ==
    LET k == Cardinality({i \in 1..Len(sorted) : sorted[i][1] >= e[1]})
    IN  SubSeq(sorted, 1, k) \o <<e>> \o SubSeq(sorted, k + 1, Len(sorted))

RECURSIVE SortByRows(_)
SortByRows(group) ==
    IF group = <<>>
    THEN <<>>
    ELSE InsertByRows(SortByRows(SubSeq(group, 1, Len(group) - 1)),
                      group[Len(group)])

\* the (rows, arr) pairs of the tensors with `cols` columns, in list order
GroupOf(outputs_list, cols) ==
    LET hits == SelectSeq(outputs_list, LAMBDA arr : Cols(arr) = cols)
    IN  [i \in 1..Len(hits) |-> <<Rows(hits[i]), Normalise(hits[i])>>]

\* arr.shape[-1] raises IndexError for a 0-dimensional array
ClassifyRaises(outputs_list) ==
    \E i \in 1..Len(outputs_list) : Ndim(outputs_list[i]) = 0

\* FaceDetector._classify_and_sort_outputs
\* (scores_out, bboxes_out, kps_out)
_classify_and_sort_outputs(outputs_list) ==
    <<SortByRows(GroupOf(outputs_list, 1)),
      SortByRows(GroupOf(outputs_list, 4)),
      SortByRows(GroupOf(outputs_list, 10))>>

RECURSIVE Pow2(_)
Pow2(n) == IF n = 0 THEN 1 ELSE 2 * Pow2(n - 1)

\* lines 176-182: the strides of a model with num_scales scales
Strides(num_scales) ==
    IF num_scales = 3
    THEN <<8, 16, 32>>
    ELSE IF num_scales = 5
         THEN <<8, 16, 32, 64, 128>>
         ELSE [i \in 1..num_scales |-> Pow2(i - 1) * 8]

\* scores_out[0] raises IndexError when there is no score tensor
TopologyRaises(scores_out) == Len(scores_out) = 0

\* FaceDetector._determine_model_topology: <<strides, num_anchors>>
_determine_model_topology(scores_out) ==
    LET num_scales == Len(scores_out)
        strides == Strides(num_scales)
        largest_count == scores_out[1][1]
        feat_size_largest == InputSide \div strides[1]
        num_anchors == Max(1, largest_count \div (feat_size_largest * feat_size_largest))
    IN  <<strides, num_anchors>>

(***************************************************************************)
(* FaceDetector.preprocess, as far as TransformInfo goes.  An image is     *)
(* <<w, h>>.  scale = 640 / max(h, w) is the fraction <<640, max(h, w)>>;  *)
(* int(w * scale) is computed exactly, without the rounding of the float   *)
(* product.                                                                *)
(***************************************************************************)
preprocess(image, input_size) ==
    LET w == image[1]
        h == image[2]
        target_size == input_size[1]
        scale == <<target_size, Max(h, w)>>
        new_w == (w * scale[1]) \div scale[2]
        new_h == (h * scale[1]) \div scale[2]
        y_offset == (target_size - new_h) \div 2
        x_offset == (target_size - new_w) \div 2
    IN  [original_width |-> w,
         original_height |-> h,
         scale |-> scale,
         x_offset |-> x_offset,
         y_offset |-> y_offset,
         resized_width |-> new_w,
         resized_height |-> new_h]

\* original-image coordinates are counted in 1/CoordDen pixel
CoordDen == 2

\* a length of n original-image pixels in the unit of original-image
\* coordinates
Px(n) == n * CoordDen

\* v / scale in the unit of original-image coordinates
DivideByScale(v, scale) == (v * scale[2] * CoordDen) \div scale[1]

\* mutant: neither clamp is applied
RemapAxis_Unclamped(v, offset, resized, scale, original) ==
    LET v_resized == v - offset
        v_orig == DivideByScale(v_resized, scale)
    IN  v_orig

\* lines 204-217 for one axis: remove the padding offset, clamp to the
\* resized bounds, divide by scale, clamp to the original bounds
RemapAxis(v, offset, resized, scale, original) ==
    LET v_resized == Max(0, Min(v - offset, resized))
        v_orig == DivideByScale(v_resized, scale)
    IN  Max(0, Min(v_orig, Px(original)))

\* FaceDetector._transform_coords_to_original
_transform_coords_to_original(x, y, transform_info, original_w, original_h) ==
    <<RemapAxis(x, transform_info.x_offset, transform_info.resized_width,
                transform_info.scale, original_w),
      RemapAxis(y, transform_info.y_offset, transform_info.resized_height,
                transform_info.scale, original_h)>>

\* mutant: the offsets are applied with the sign of the landmark decoder
_decode_bbox_AllAdded(bbox_row, cx, cy, stride) ==
    <<cx + bbox_row[1] * stride, cy + bbox_row[2] * stride,
      cx + bbox_row[3] * stride, cy + bbox_row[4] * stride>>

\* FaceDetector._decode_bbox
_decode_bbox(bbox_row, cx, cy, stride) ==
    LET dx1 == bbox_row[1]
        dy1 == bbox_row[2]
        dx2 == bbox_row[3]
        dy2 == bbox_row[4]
        x1 == cx - dx1 * stride
        y1 == cy - dy1 * stride
        x2 == cx + dx2 * stride
        y2 == cy + dy2 * stride
    IN  <<x1, y1, x2, y2>>

\* FaceDetector._decode_landmarks
_decode_landmarks(kps_row, cx, cy, stride, transform_info, original_w, original_h) ==
    [j \in 1..5 |->
        LET kpx == kps_row[(j - 1) * 2 + 1]
            kpy == kps_row[(j - 1) * 2 + 2]
            lx_640 == cx + kpx * stride
            ly_640 == cy + kpy * stride
        IN  _transform_coords_to_original(lx_640, ly_640, transform_info,
                                          original_w, original_h)]

\* mutant: row and column of the grid position are swapped
AnchorCentre_Swapped(i, num_anchors, feat_size, stride) ==
    LET pos_idx == i \div num_anchors
        h_idx == pos_idx % feat_size
        w_idx == pos_idx \div feat_size
    IN  <<((2 * w_idx + 1) * stride) \div 2, ((2 * h_idx + 1) * stride) \div 2>>

\* lines 259-266: <<cx, cy>> of anchor i; (w_idx + 0.5) * stride is an
\* integer because every stride is even
AnchorCentre(i, num_anchors, feat_size, stride) ==
    LET pos_idx == i \div num_anchors
        h_idx == pos_idx \div feat_size
        w_idx == pos_idx % feat_size
    IN  <<((2 * w_idx + 1) * stride) \div 2, ((2 * h_idx + 1) * stride) \div 2>>

\* tensor[i] raises: IndexError past the last row, and a tensor that is not
\* 2-dimensional yields a matrix where a row of numbers is unpacked
RowRaises(arr, i) == Ndim(arr) # 2 \/ i >= arr.shape[1]

\* tensor[i]
RowAt(arr, i) ==
    IF i \in DOMAIN arr.hot THEN arr.hot[i] ELSE ZeroRow(arr.shape[2])

RECURSIVE Ascending(_)
\* the elements of a finite set of numbers in ascending order
Ascending(S) ==
    IF S = {}
    THEN <<>>
    ELSE LET m == CHOOSE x \in S : \A y \in S : x <= y
         IN  <<m>> \o Ascending(S \ {m})

\* lines 252-253: np.nonzero(scores >= conf_threshold)[0]; the entries
\* outside hot are 0 and conf_threshold is positive
KeepIndices(score_tensor, conf_threshold) ==
    Ascending({i \in DOMAIN score_tensor.hot : score_tensor.hot[i][1] >= conf_threshold})

\* lines 257-291: the detection decoded from anchor i
DecodeAnchor(i, score_tensor, bboxes, keypoints, stride, feat_size, num_anchors, transform_info, original_w, original_h) ==
    LET score == score_tensor.hot[i][1]
        c == AnchorCentre(i, num_anchors, feat_size, stride)
        cx == c[1]
        cy == c[2]
        b640 == _decode_bbox(RowAt(bboxes, i), cx, cy, stride)
        p1 == _transform_coords_to_original(b640[1], b640[2], transform_info,
                                            original_w, original_h)
        p2 == _transform_coords_to_original(b640[3], b640[4], transform_info,
                                            original_w, original_h)
        landmarks == _decode_landmarks(RowAt(keypoints, i), cx, cy, stride,
                                       transform_info, original_w, original_h)
    IN  [bbox |-> <<p1[1], p1[2], p2[1], p2[2]>>,
         confidence |-> score,
         landmarks |-> landmarks]

\* _process_scale_detections raises: lines 243-244 when a group has no
\* entry for the scale, lines 270 and 283 at some kept anchor
ProcessScaleRaises(scale_idx, scores_out, bboxes_out, kps_out, conf_threshold) ==
    \/ scale_idx > Len(bboxes_out)
    \/ scale_idx > Len(kps_out)
    \/ LET keep_indices == KeepIndices(scores_out[scale_idx][2], conf_threshold)
       IN  \E k \in 1..Len(keep_indices) :
               \/ RowRaises(bboxes_out[scale_idx][2], keep_indices[k])
               \/ RowRaises(kps_out[scale_idx][2], keep_indices[k])

\* FaceDetector._process_scale_detections (scale_idx counts from 1)
_process_scale_detections(scale_idx, scores_out, bboxes_out, kps_out, strides, num_anchors, transform_info, original_w, original_h, conf_threshold) ==
    LET score_tensor == scores_out[scale_idx][2]
        bboxes == bboxes_out[scale_idx][2]
        keypoints == kps_out[scale_idx][2]
        stride == strides[scale_idx]
        feat_size == InputSide \div stride
        keep_indices == KeepIndices(score_tensor, conf_threshold)
    IN  [k \in 1..Len(keep_indices) |->
            DecodeAnchor(keep_indices[k], score_tensor, bboxes, keypoints, stride,
                         feat_size, num_anchors, transform_info,
                         original_w, original_h)]

(***************************************************************************)
(* InferenceServicer.DetectFaces and FaceDetector.detect as the steps of   *)
(* one request.  A request in flight is a record: the fields of the gRPC   *)
(* request, the position pc in the handler, and the local variables of     *)
(* detect.  `ran` records which stages of detect have been entered.        *)
(***************************************************************************)
\* FaceDetector.__init__: the fields of the detector shared by all requests
InitDetector ==
    [conf_threshold |-> 50,
     nms_threshold |-> <<2, 5>>,
     input_size |-> <<InputSide, InputSide>>,
     output_names |-> <<"score", "bbox", "kps">>]

NoRequest ==
    [image |-> <<0, 0>>, confidence_threshold |-> 0, nms_threshold |-> Zero,
     outputs |-> <<>>]

NoTransform ==
    [original_width |-> 0, original_height |-> 0, scale |-> Zero,
     x_offset |-> 0, y_offset |-> 0, resized_width |-> 0, resized_height |-> 0]

\* a worker thread of the pool that is not running a handler
IdleReq ==
    [pc |-> "idle",
     request |-> NoRequest,
     after_failure |-> FALSE,
     conf_threshold |-> 0,
     nms_threshold |-> Zero,
     transform_info |-> NoTransform,
     outputs_list |-> <<>>,
     scores_out |-> <<>>,
     bboxes_out |-> <<>>,
     kps_out |-> <<>>,
     strides |-> <<>>,
     num_anchors |-> 0,
     scale_idx |-> 0,
     detections |-> <<>>,
     ran |-> {},
     raised |-> "no",
     response |-> [code |-> "NONE", detections |-> <<>>]]

\* mutant: a per-call threshold override is stored in the detector
DetectorAfterDetect_OverrideStored(det, request) ==
    [det EXCEPT
        !.conf_threshold = IF request.confidence_threshold > 0
                           THEN request.confidence_threshold ELSE @,
        !.nms_threshold = IF request.nms_threshold[1] > 0
                          THEN request.nms_threshold ELSE @]

\* the detector after lines 335-348 of detect: no field of self is assigned
DetectorAfterDetect(det, request) == det

\* lines 546-552 and 335-348: decode the image, pick the thresholds (a
\* request field that is not positive means None, and None means the
\* detector's own threshold), preprocess, run the network
BeginStep(det, request, failed_before) ==
    [IdleReq EXCEPT
        !.pc = "classify",
        !.request = request,
        !.after_failure = failed_before,
        !.conf_threshold = IF request.confidence_threshold > 0
                           THEN request.confidence_threshold
                           ELSE det.conf_threshold,
        !.nms_threshold = IF request.nms_threshold[1] > 0
                          THEN request.nms_threshold
                          ELSE det.nms_threshold,
        !.transform_info = preprocess(request.image, det.input_size),
        !.outputs_list = request.outputs]

\* mutant: the handler swallows the error and answers with what was decoded
FailedStep_PartialList(rq, where) ==
    [rq EXCEPT
        !.pc = "done",
        !.raised = where,
        !.response = [code |-> "OK", detections |-> rq.detections]]

\* lines 372-376 and 574-578: detect re-raises, DetectFaces answers with
\* status INTERNAL and an empty DetectResponse
FailedStep(rq, where) ==
    [rq EXCEPT
        !.pc = "done",
        !.raised = where,
        !.response = [code |-> "INTERNAL", detections |-> <<>>]]

\* mutant: only the score and box counts are compared
CountsAgree_KpsIgnored(scores_out, bboxes_out, kps_out) ==
    Len(scores_out) = Len(bboxes_out)

\* line 354: len(scores_out) == len(bboxes_out) == len(kps_out)
CountsAgree(scores_out, bboxes_out, kps_out) ==
    Len(scores_out) = Len(bboxes_out) /\ Len(bboxes_out) = Len(kps_out)

\* lines 350-357: classify and sort the outputs, verify the alignment
ClassifyStep(rq) ==
    IF ClassifyRaises(rq.outputs_list)
    THEN FailedStep(rq, "classify")
    ELSE LET groups == _classify_and_sort_outputs(rq.outputs_list)
             classified == [rq EXCEPT !.scores_out = groups[1],
                                      !.bboxes_out = groups[2],
                                      !.kps_out = groups[3]]
         IN  IF ~CountsAgree(groups[1], groups[2], groups[3])
             THEN [classified EXCEPT !.pc = "convert", !.detections = <<>>]
             ELSE [classified EXCEPT !.pc = "topology"]

\* lines 359-363: determine the topology, detections = []
TopologyStep(rq) ==
    IF TopologyRaises(rq.scores_out)
    THEN FailedStep([rq EXCEPT !.ran = @ \cup {"topology"}], "topology")
    ELSE LET t == _determine_model_topology(rq.scores_out)
         IN  [rq EXCEPT !.strides = t[1],
                        !.num_anchors = t[2],
                        !.scale_idx = 1,
                        !.detections = <<>>,
                        !.ran = @ \cup {"topology"},
                        !.pc = "decode"]

\* lines 365-371: one iteration of the loop over the scales
DecodeStep(rq) ==
    IF ProcessScaleRaises(rq.scale_idx, rq.scores_out, rq.bboxes_out, rq.kps_out,
                          rq.conf_threshold)
    THEN FailedStep([rq EXCEPT !.ran = @ \cup {"decode"}], "decode")
    ELSE LET scale_dets ==
                 _process_scale_detections(
                     rq.scale_idx, rq.scores_out, rq.bboxes_out, rq.kps_out,
                     rq.strides, rq.num_anchors, rq.transform_info,
                     rq.request.image[1], rq.request.image[2], rq.conf_threshold)
         IN  [rq EXCEPT !.detections = @ \o scale_dets,
                        !.scale_idx = @ + 1,
                        !.ran = @ \cup {"decode"},
                        !.pc = IF rq.scale_idx = Len(rq.scores_out)
                               THEN "nms" ELSE "decode"]

\* lines 378-386: apply NMS and return
NmsStep(rq) ==
    [rq EXCEPT !.detections = nms(rq.detections, rq.nms_threshold),
               !.ran = @ \cup {"nms"},
               !.pc = "convert"]

\* lines 554-572: convert the detections to the response
ConvertStep(rq) ==
    [rq EXCEPT !.pc = "done",
               !.response = [code |-> "OK", detections |-> rq.detections]]

\* the next step of a request that is in flight
DetectStep(rq) ==
    CASE rq.pc = "classify" -> ClassifyStep(rq)
      [] rq.pc = "topology" -> TopologyStep(rq)
      [] rq.pc = "decode" -> DecodeStep(rq)
      [] rq.pc = "nms" -> NmsStep(rq)
      [] rq.pc = "convert" -> ConvertStep(rq)

RECURSIVE RunToEnd(_)
\* a request run without interruption from where it stands
RunToEnd(rq) == IF rq.pc = "done" THEN rq ELSE RunToEnd(DetectStep(rq))

\* the response to a request served alone by a freshly built servicer
AloneResponse(request) ==
    RunToEnd(BeginStep(InitDetector, request, FALSE)).response

(***************************************************************************)
(* FaceRecognizer.align_face / extract_embedding and                       *)
(* InferenceServicer.ExtractEmbedding as the steps of one request.         *)
(* OpenCV is outside the repository; the model keeps of its behaviour what *)
(* decides the control flow:                                               *)
(*   - cv2.estimateAffinePartial2D raises when the two point sets differ   *)
(*     in size (the target set has 5 points), returns None when no         *)
(*     transform can be estimated (fewer than 2 distinct source points),   *)
(*     and a 2x3 matrix otherwise: two distinct points fix a similarity    *)
(*     transform, so collinear points are no obstacle;                     *)
(*   - cv2.warpAffine raises when the matrix is None.                      *)
(***************************************************************************)
\* len(target_landmarks)
TargetPoints == 5

\* the landmarks lie on one line (or are fewer than 3 distinct points)
Collinear(landmarks) ==
    \A i, j, k \in 1..Len(landmarks) :
        (landmarks[j][1] - landmarks[i][1]) * (landmarks[k][2] - landmarks[i][2])
          = (landmarks[j][2] - landmarks[i][2]) * (landmarks[k][1] - landmarks[i][1])

\* cv2.estimateAffinePartial2D(src_landmarks, target_landmarks)[0]
\* "raise", "none" or "matrix"
estimateAffinePartial2D(landmarks) ==
    IF Len(landmarks) # TargetPoints
    THEN "raise"
    ELSE IF Cardinality(Range(landmarks)) < 2 THEN "none" ELSE "matrix"

\* an ExtractEmbedding handler that is not running
IdleEmb ==
    [pc |-> "idle",
     landmarks |-> <<>>,
     tform |-> "unset",
     aligned |-> FALSE,
     inferred |-> FALSE,
     response |-> [code |-> "NONE", embedding |-> FALSE]]

\* lines 586-589: decode the image, read the landmarks of the request
EmbedBeginStep(landmarks) ==
    [IdleEmb EXCEPT !.pc = "align", !.landmarks = landmarks]

\* lines 601-605: ExtractEmbedding answers with status INTERNAL and an
\* empty EmbeddingResponse
EmbedFailedStep(e) ==
    [e EXCEPT !.pc = "done",
              !.response = [code |-> "INTERNAL", embedding |-> FALSE]]

\* FaceRecognizer.align_face, lines 470-479: estimate the transform and warp
AlignStep(e) ==
    LET tform == estimateAffinePartial2D(e.landmarks)
    IN  IF tform = "raise"
        THEN EmbedFailedStep(e)
        ELSE IF tform = "none"
             THEN EmbedFailedStep([e EXCEPT !.tform = tform])
             ELSE [e EXCEPT !.tform = tform, !.aligned = TRUE, !.pc = "infer"]

\* FaceRecognizer.extract_embedding, lines 486-501: preprocess the aligned
\* face, run the recognition network, normalise
InferStep(e) == [e EXCEPT !.inferred = TRUE, !.pc = "respond"]

\* lines 594-599: the response with the embedding
EmbedRespondStep(e) ==
    [e EXCEPT !.pc = "done", !.response = [code |-> "OK", embedding |-> TRUE]]

(***************************************************************************)
(* State.                                                                  *)
(***************************************************************************)
VARIABLES
    iouBoxes,   \* the two boxes iou is called on
    iouRet,     \* the calls of iou made so far: <<i, j>> :> iou(box i, box j)
    nmsIn,      \* the candidate list nms was called with
    nmsThr,     \* the threshold nms was called with
    nmsPc,      \* position in nms: "call", "loop", "returned"
    nmsDets,    \* the local list `detections` of nms
    nmsKeep,    \* the local list `keep` of nms
    nmsRet,     \* the list nms returned
    detector,   \* the fields of the FaceDetector of the servicer
    req,        \* the request each busy worker thread is serving
    failedBefore, \* some request was answered with status INTERNAL
    emb,        \* the ExtractEmbedding request being served
    remapImage, \* <<w, h>> of the image preprocess is called on
    remapInfo,  \* the TransformInfo preprocess returned
    remapPoints, \* the square-space points handed to the remapper
    remapResults, \* what the remapper returned for each of them
    remapCalled, \* detect has been called on the image
    remapDets   \* the list detect returned

vars == <<iouBoxes, iouRet, nmsIn, nmsThr, nmsPc, nmsDets, nmsKeep, nmsRet,
          detector, req, failedBefore, emb,
          remapImage, remapInfo, remapPoints, remapResults, remapCalled, remapDets>>

iouVars == <<iouBoxes, iouRet>>
nmsVars == <<nmsIn, nmsThr, nmsPc, nmsDets, nmsKeep, nmsRet>>
serveVars == <<detector, req, failedBefore>>
embVars == <<emb>>
remapVars == <<remapImage, remapInfo, remapPoints, remapResults, remapCalled, remapDets>>

\* futures.ThreadPoolExecutor(max_workers=4)
MaxWorkers == 4

\* the worker threads that serve requests
Slots == 1..Min(NumClients, MaxWorkers)

ServeIdle ==
    /\ detector = InitDetector
    /\ req = [s \in Slots |-> IdleReq]
    /\ failedBefore = FALSE

EmbedIdle == emb = IdleEmb

RemapIdle ==
    /\ remapImage = <<0, 0>>
    /\ remapInfo = NoTransform
    /\ remapPoints = <<>>
    /\ remapResults = <<>>
    /\ remapCalled = FALSE
    /\ remapDets = <<>>

\* the empty function
NoCalls == [c \in {} |-> Zero]

IouIdle == iouBoxes = <<>> /\ iouRet = NoCalls
NmsIdle ==
    /\ nmsIn = <<>>
    /\ nmsThr = Zero
    /\ nmsPc = "idle"
    /\ nmsDets = <<>>
    /\ nmsKeep = <<>>
    /\ nmsRet = <<>>

(***************************************************************************)
(* iou on its own: every pair of boxes with corners in 0..MaxCoord,        *)
(* zero-area and inverted boxes included.                                  *)
(***************************************************************************)
IouBoxes == (0..MaxCoord) \X (0..MaxCoord) \X (0..MaxCoord) \X (0..MaxCoord)

IouCallSites == {<<1, 2>>, <<2, 1>>, <<1, 1>>}

IouInit ==
    /\ iouBoxes \in IouBoxes \X IouBoxes
    /\ iouRet = NoCalls
    /\ NmsIdle
    /\ ServeIdle
    /\ EmbedIdle
    /\ RemapIdle

\* one call FaceDetector.iou(iouBoxes[i], iouBoxes[j])
IouCall(i, j) ==
    /\ <<i, j>> \notin DOMAIN iouRet
    /\ iouRet' = (<<i, j>> :> iou(iouBoxes[i], iouBoxes[j])) @@ iouRet
    /\ UNCHANGED <<iouBoxes, nmsVars, serveVars, embVars, remapVars>>

IouNext == \E c \in IouCallSites : IouCall(c[1], c[2])

SpecIou == IouInit /\ [][IouNext]_vars

(***************************************************************************)
(* nms on its own: every candidate list of at most MaxDets detections      *)
(* over a pool of boxes, and a pool of thresholds.                         *)
(***************************************************************************)
\* proper, overlapping, disjoint, zero-area and inverted boxes; the IoU of
\* <<0,0,5,1>> and <<0,0,3,1>> is 3/5, that of <<0,0,2,2>> and <<0,0,3,1>>
\* is 2/5
NmsBoxPool ==
    { <<0, 0, 2, 2>>, <<0, 0, 5, 1>>, <<0, 0, 3, 1>>, <<1, 1, 2, 2>>,
      <<1, 0, 1, 2>>, <<2, 2, 0, 0>> }

NmsConfPool == {50, 90}

\* 0, the default 0.4 (an IoU one pair of the pool has exactly), 0.7, 1.1
NmsThrPool == { <<0, 1>>, <<2, 5>>, <<7, 10>>, <<11, 10>> }

NmsCandidates ==
    [bbox : NmsBoxPool, confidence : NmsConfPool, landmarks : {<<>>}]

NmsLists == UNION {[1..n -> NmsCandidates] : n \in 0..MaxDets}

NmsInit ==
    /\ nmsIn \in NmsLists
    /\ nmsThr \in NmsThrPool
    /\ nmsPc = "call"
    /\ nmsDets = <<>>
    /\ nmsKeep = <<>>
    /\ nmsRet = <<>>
    /\ IouIdle
    /\ ServeIdle
    /\ EmbedIdle
    /\ RemapIdle

\* entry of nms with an empty list: return []
NmsEnterEmpty ==
    /\ nmsPc = "call"
    /\ Len(nmsIn) = 0
    /\ nmsPc' = "returned"
    /\ nmsRet' = <<>>
    /\ UNCHANGED <<nmsIn, nmsThr, nmsDets, nmsKeep, iouVars, serveVars, embVars, remapVars>>

\* entry of nms: sort by confidence, keep = []
NmsEnter ==
    /\ nmsPc = "call"
    /\ Len(nmsIn) # 0
    /\ nmsDets' = SortByConfidence(nmsIn)
    /\ nmsKeep' = <<>>
    /\ nmsPc' = "loop"
    /\ UNCHANGED <<nmsIn, nmsThr, nmsRet, iouVars, serveVars, embVars, remapVars>>

\* one iteration of `while detections`
NmsIterate ==
    /\ nmsPc = "loop"
    /\ nmsDets # <<>>
    /\ nmsKeep' = Append(nmsKeep, Head(nmsDets))
    /\ nmsDets' = NmsFilter(nmsDets, nmsThr)
    /\ UNCHANGED <<nmsIn, nmsThr, nmsPc, nmsRet, iouVars, serveVars, embVars, remapVars>>

\* the loop ends: return keep
NmsReturn ==
    /\ nmsPc = "loop"
    /\ nmsDets = <<>>
    /\ nmsRet' = nmsKeep
    /\ nmsPc' = "returned"
    /\ UNCHANGED <<nmsIn, nmsThr, nmsDets, nmsKeep, iouVars, serveVars, embVars, remapVars>>

NmsNext == NmsEnterEmpty \/ NmsEnter \/ NmsIterate \/ NmsReturn

SpecNms == NmsInit /\ [][NmsNext]_vars

\* a smaller pool of candidates for the runs that are checked to their end:
\* a face of confidence 0.9, two faces of confidence 0.5 that overlap it by
\* 2/7 and by 2/5, and a zero-area box
NmsFairCandidates ==
    { [bbox |-> <<0, 0, 2, 2>>, confidence |-> 90, landmarks |-> <<>>],
      [bbox |-> <<0, 0, 5, 1>>, confidence |-> 50, landmarks |-> <<>>],
      [bbox |-> <<0, 0, 3, 1>>, confidence |-> 50, landmarks |-> <<>>],
      [bbox |-> <<1, 0, 1, 2>>, confidence |-> 50, landmarks |-> <<>>] }

NmsFairLists == UNION {[1..n -> NmsFairCandidates] : n \in 0..MaxDets}

\* 0 (everything but the head is dropped), the default 0.4, 1.1 (nothing
\* is dropped)
NmsFairThrPool == { <<0, 1>>, <<2, 5>>, <<11, 10>> }

NmsFairInit ==
    /\ nmsIn \in NmsFairLists
    /\ nmsThr \in NmsFairThrPool
    /\ nmsPc = "call"
    /\ nmsDets = <<>>
    /\ nmsKeep = <<>>
    /\ nmsRet = <<>>
    /\ IouIdle
    /\ ServeIdle
    /\ EmbedIdle
    /\ RemapIdle

\* nms is sequential code on the thread of its caller: a call that can take
\* a step takes it
SpecNmsFair == NmsFairInit /\ [][NmsNext]_vars /\ WF_vars(NmsNext)

(***************************************************************************)
(* Claims about nms and iou.                                               *)
(***************************************************************************)
\* number of positions of the list s that hold d
Count(s, d) == Cardinality({i \in DOMAIN s : s[i] = d})

\* C1: any two distinct detections of the list nms returns have an IoU
\* strictly below the threshold.
C1_NmsPairwiseBelowThreshold ==
    nmsPc = "returned" =>
        \A i, j \in DOMAIN nmsRet :
            i # j => RatLt(iou(nmsRet[i].bbox, nmsRet[j].bbox), nmsThr)

\* nms returned two or more detections and suppressed at least one
C1_Witness ==
    /\ nmsPc = "returned"
    /\ Len(nmsRet) >= 2
    /\ Len(nmsRet) < Len(nmsIn)

\* C2: the list nms returns holds only detections of the input, none more
\* often than the input holds it, unmodified, in non-increasing order of
\* confidence.
C2_NmsSubsetSorted ==
    nmsPc = "returned" =>
        /\ \A d \in Range(nmsRet) : Count(nmsRet, d) <= Count(nmsIn, d)
        /\ \A i, j \in DOMAIN nmsRet :
               i < j => nmsRet[i].confidence >= nmsRet[j].confidence

\* nms returned detections of different confidence out of an input that was
\* not sorted, and dropped one
C2_Witness ==
    /\ nmsPc = "returned"
    /\ Len(nmsRet) >= 2
    /\ Len(nmsRet) < Len(nmsIn)
    /\ nmsRet[1].confidence > nmsRet[Len(nmsRet)].confidence
    /\ nmsIn[1].confidence < nmsIn[Len(nmsIn)].confidence

\* C3: iou is symmetric, lies in [0, 1] for all boxes, zero-area and
\* inverted ones included, and iou(b, b) = 1 for a box with x1 < x2, y1 < y2.
C3_IouContract ==
    /\ \A c \in DOMAIN iouRet :
           /\ iouRet[c][2] > 0
           /\ RatLe(Zero, iouRet[c])
           /\ RatLe(iouRet[c], <<1, 1>>)
    /\ ({<<1, 2>>, <<2, 1>>} \subseteq DOMAIN iouRet) =>
           iouRet[<<1, 2>>] = iouRet[<<2, 1>>]
    /\ (/\ <<1, 1>> \in DOMAIN iouRet
        /\ iouBoxes[1][1] < iouBoxes[1][3]
        /\ iouBoxes[1][2] < iouBoxes[1][4]) =>
           RatEq(iouRet[<<1, 1>>], <<1, 1>>)

\* iou was called both ways on two different boxes that overlap in part,
\* and on a proper box with itself
C3_Witness ==
    /\ DOMAIN iouRet = IouCallSites
    /\ iouBoxes[1] # iouBoxes[2]
    /\ RatLt(Zero, iouRet[<<1, 2>>])
    /\ RatLt(iouRet[<<1, 2>>], <<1, 1>>)
    /\ iouRet[<<1, 1>>] # Zero

\* the place the stable descending sort gives to element i of dets: behind
\* every element of higher confidence and every earlier element of the same
\* confidence
C12_Rank(dets, i) ==
    1 + Cardinality({j \in DOMAIN dets :
                        \/ dets[j].confidence > dets[i].confidence
                        \/ dets[j].confidence = dets[i].confidence /\ j < i})

\* dets in stable confidence-descending order
C12_Sorted(dets) ==
    [r \in DOMAIN dets |-> dets[CHOOSE i \in DOMAIN dets : C12_Rank(dets, i) = r]]

RECURSIVE C12_Greedy(_, _, _, _)
\* the reference procedure from the k-th ranked detection on: a detection
\* is kept iff its IoU with every detection kept before it is below thr
C12_Greedy(sorted, k, kept, thr) ==
    IF k > Len(sorted)
    THEN kept
    ELSE LET d == sorted[k]
             ok == \A j \in DOMAIN kept : RatLt(iou(kept[j].bbox, d.bbox), thr)
         IN  C12_Greedy(sorted, k + 1, IF ok THEN Append(kept, d) ELSE kept, thr)

C12_Reference(dets, thr) == C12_Greedy(C12_Sorted(dets), 1, <<>>, thr)

\* of a list of two detections, the one that ranks first and the other one
C12_First(dets) ==
    IF dets[2].confidence > dets[1].confidence THEN dets[2] ELSE dets[1]

C12_Second(dets) ==
    IF dets[2].confidence > dets[1].confidence THEN dets[1] ELSE dets[2]

\* C12: nms returns what the reference greedy procedure returns on the
\* stable confidence-descending sort of the input: a detection is kept iff
\* its IoU with every detection kept before it is strictly below the
\* threshold.  Of two boxes whose IoU equals the threshold only the one
\* ranked first is kept; of two boxes with IoU 0.6 only the one ranked first
\* is kept at threshold 0.4 and both are kept at threshold 0.7.
C12_NmsIsReferenceGreedy ==
    nmsPc = "returned" =>
        /\ nmsRet = C12_Reference(nmsIn, nmsThr)
        /\ Len(nmsIn) = 2 =>
               LET u == iou(nmsIn[1].bbox, nmsIn[2].bbox)
               IN  /\ RatEq(u, nmsThr) => nmsRet = <<C12_First(nmsIn)>>
                   /\ (RatEq(u, <<3, 5>>) /\ nmsThr = <<2, 5>>) =>
                          nmsRet = <<C12_First(nmsIn)>>
                   /\ (RatEq(u, <<3, 5>>) /\ nmsThr = <<7, 10>>) =>
                          nmsRet = <<C12_First(nmsIn), C12_Second(nmsIn)>>

\* nms has returned from three candidates: the first two have the same
\* confidence and an IoU of 0.6, the third has a higher confidence and an
\* IoU of exactly the threshold 0.4 with the second; the third and the
\* first are kept
C12_Witness ==
    /\ nmsPc = "returned"
    /\ Len(nmsIn) = 3
    /\ nmsThr = <<2, 5>>
    /\ nmsIn[1].confidence = nmsIn[2].confidence
    /\ nmsIn[3].confidence > nmsIn[1].confidence
    /\ RatEq(iou(nmsIn[1].bbox, nmsIn[2].bbox), <<3, 5>>)
    /\ RatEq(iou(nmsIn[3].bbox, nmsIn[2].bbox), nmsThr)
    /\ nmsRet = <<nmsIn[3], nmsIn[1]>>

\* C14: the loop of nms terminates for every candidate list and threshold:
\* kept count + remaining count never exceeds the number n of candidates,
\* every iteration moves exactly one detection to the kept list and
\* shortens the remaining list by at least its head, so there are at most n
\* iterations, and nms returns.
C14_NmsLoopTerminates ==
    /\ [](Len(nmsKeep) + Len(nmsDets) <= Len(nmsIn))
    /\ [][NmsIterate =>
              /\ nmsKeep' = Append(nmsKeep, Head(nmsDets))
              /\ Len(nmsDets') < Len(nmsDets)
              /\ \A d \in Range(nmsDets') : Count(nmsDets', d) <= Count(Tail(nmsDets), d)]_vars
    /\ <>(nmsPc = "returned")

\* nms has returned after as many iterations as there were candidates
C14_WitnessAllKept ==
    /\ nmsPc = "returned"
    /\ Len(nmsIn) = MaxDets
    /\ Len(nmsRet) = Len(nmsIn)

\* nms has returned after fewer iterations than there were candidates: one
\* iteration took more than the head off the remaining list
C14_Witness ==
    /\ nmsPc = "returned"
    /\ Len(nmsIn) = MaxDets
    /\ Len(nmsRet) >= 2
    /\ Len(nmsRet) < Len(nmsIn)
    /\ nmsRet[1].bbox # nmsRet[2].bbox

(***************************************************************************)
(* Inputs of the detection requests: images and the tensors the network    *)
(* answers with.                                                           *)
(***************************************************************************)
Tensor(shape, hot) == [shape |-> shape, hot |-> hot]

NoHot == [i \in {} |-> <<>>]

\* the outputs of a one-scale model with `rows` anchors of which anchor i is
\* not zero
OneScale(rows, i, score, bbox_row, kps_row) ==
    <<Tensor(<<rows, 1>>, i :> <<score>>),
      Tensor(<<rows, 4>>, i :> bbox_row),
      Tensor(<<rows, 10>>, i :> kps_row)>>

\* square; landscape, padded above and below; portrait, padded left and
\* right; small, scaled up by 2, new_h = int(202.0)
Images == { <<640, 640>>, <<1280, 720>>, <<480, 640>>, <<320, 101>> }

RegVals == (0 - 1)..MaxReg

BoxRows == RegVals \X RegVals \X RegVals \X RegVals

KpsRows == { ZeroRow(10), <<0 - 1, 0 - 1, 1, 0 - 1, 0, 0, 0 - 1, 1, 1, 1>> }

\* <<rows, i>>: one anchor per position (first cell, row 1 column 5, last
\* cell) and two anchors per position
AnchorChoices == { <<6400, 0>>, <<6400, 85>>, <<6400, 6399>>, <<12800, 171>> }

\* the scenario of one anchor at cell (0,0), stride 8, regression (1,1,1,1),
\* zero landmark offsets and score 0.9
TinyOutputs == OneScale(1, 0, 90, <<1, 1, 1, 1>>, ZeroRow(10))

\* three scales, handed over landmark tensors first and smallest scale
\* first, one of them with a batch dimension; scale 1 has two overlapping
\* faces (IoU 5/9) and scale 2 one face
ThreeScaleOutputs ==
    <<Tensor(<<400, 10>>, NoHot),
      Tensor(<<1, 1600, 10>>, NoHot),
      Tensor(<<6400, 10>>, NoHot),
      Tensor(<<400, 4>>, NoHot),
      Tensor(<<1600, 4>>, 441 :> <<1, 1, 1, 1>>),
      Tensor(<<6400, 4>>, (3280 :> <<4, 4, 4, 4>>) @@ (3281 :> <<5, 4, 1, 4>>)),
      Tensor(<<400, 1>>, NoHot),
      Tensor(<<1600, 1>>, 441 :> <<80>>),
      Tensor(<<6400, 1>>, (3280 :> <<70>>) @@ (3281 :> <<90>>))>>

\* the landmark tensor of the smallest scale is missing
MismatchOutputs == SubSeq(ThreeScaleOutputs, 2, 9)

\* the second largest box tensor has 400 rows: decoding raises IndexError
\* at anchor 441 of scale 2, after scale 1 was decoded
DecodeFailureOutputs ==
    [ThreeScaleOutputs EXCEPT ![5] = Tensor(<<30, 4>>, NoHot)]

\* a box tensor with a batch dimension of 2: its rows are matrices
BadRankOutputs ==
    <<Tensor(<<2, 1>>, 0 :> <<90>>),
      Tensor(<<2, 3, 4>>, NoHot),
      Tensor(<<2, 10>>, NoHot)>>

\* a 0-dimensional tensor among the outputs
ScalarOutputs == <<Tensor(<<>>, NoHot)>> \o TinyOutputs

\* no output has 1, 4 or 10 columns
ForeignOutputs == <<Tensor(<<5, 3>>, NoHot)>>

DetectRequest(image, conf, thr, outputs) ==
    [image |-> image, confidence_threshold |-> conf, nms_threshold |-> thr,
     outputs |-> outputs]

\* 0 stands for a threshold field that is not set
ConfChoices == {0, 30}
ThrChoices == {Zero, <<7, 10>>}

SpecialOutputs ==
    { TinyOutputs, ThreeScaleOutputs, MismatchOutputs, DecodeFailureOutputs,
      BadRankOutputs, ScalarOutputs, ForeignOutputs }

\* the requests of the detection run on its own
DetectPool ==
    { DetectRequest(im, conf, Zero, OneScale(a[1], a[2], score, b, k)) :
        im \in Images, conf \in ConfChoices, a \in AnchorChoices,
        score \in {40, 90}, b \in BoxRows, k \in KpsRows }
    \cup
    { DetectRequest(im, conf, thr, out) :
        im \in Images, conf \in ConfChoices, thr \in ThrChoices,
        out \in SpecialOutputs }

\* one scale with two overlapping faces (IoU 5/9) of scores 0.40 and 0.45
TwoFacesOutputs ==
    <<Tensor(<<6400, 10>>, NoHot),
      Tensor(<<6400, 4>>, (3280 :> <<4, 4, 4, 4>>) @@ (3281 :> <<5, 4, 1, 4>>)),
      Tensor(<<6400, 1>>, (3280 :> <<40>>) @@ (3281 :> <<45>>))>>

\* the requests of the concurrent service: the two faces with no threshold
\* set (none reaches 0.5), with the confidence threshold lowered (NMS at
\* 0.4 keeps one) and with the NMS threshold raised as well (both kept),
\* and a decode failure
ServePool ==
    { DetectRequest(<<1280, 720>>, 0, Zero, TwoFacesOutputs),
      DetectRequest(<<1280, 720>>, 30, Zero, TwoFacesOutputs),
      DetectRequest(<<1280, 720>>, 30, <<7, 10>>, TwoFacesOutputs),
      DetectRequest(<<640, 640>>, 0, Zero, DecodeFailureOutputs) }

(***************************************************************************)
(* The service: DetectFaces requests on the worker threads of the pool.    *)
(***************************************************************************)
Init ==
    /\ ServeIdle
    /\ IouIdle
    /\ NmsIdle
    /\ EmbedIdle
    /\ RemapIdle

\* a worker thread picks up a DetectFaces request and runs detect up to the
\* return of session.run
Begin(s, request) ==
    /\ req[s].pc = "idle"
    /\ req' = [req EXCEPT ![s] = BeginStep(detector, request, failedBefore)]
    /\ detector' = DetectorAfterDetect(detector, request)
    /\ UNCHANGED <<failedBefore, iouVars, nmsVars, embVars, remapVars>>

\* the effect of one step of the request of thread s
Advance(s) ==
    /\ req' = [req EXCEPT ![s] = DetectStep(req[s])]
    /\ failedBefore' = (failedBefore \/ req'[s].raised # "no")
    /\ UNCHANGED <<detector, iouVars, nmsVars, embVars, remapVars>>

Classify(s) == req[s].pc = "classify" /\ Advance(s)

Topology(s) == req[s].pc = "topology" /\ Advance(s)

ProcessScale(s) == req[s].pc = "decode" /\ Advance(s)

ApplyNms(s) == req[s].pc = "nms" /\ Advance(s)

Convert(s) == req[s].pc = "convert" /\ Advance(s)

\* the response is sent and the thread is free again
Finish(s) ==
    /\ req[s].pc = "done"
    /\ req' = [req EXCEPT ![s] = IdleReq]
    /\ UNCHANGED <<detector, failedBefore, iouVars, nmsVars, embVars, remapVars>>

DetectNext ==
    \E s \in Slots :
        \/ Classify(s)
        \/ Topology(s)
        \/ ProcessScale(s)
        \/ ApplyNms(s)
        \/ Convert(s)

Next ==
    \/ \E s \in Slots : \E request \in ServePool : Begin(s, request)
    \/ DetectNext
    \/ \E s \in Slots : Finish(s)

Spec == Init /\ [][Next]_vars

(***************************************************************************)
(* detect on its own: one request drawn from DetectPool, run to its        *)
(* response on thread 1.                                                   *)
(***************************************************************************)
DetectInit ==
    /\ detector = InitDetector
    /\ failedBefore = FALSE
    /\ \E request \in DetectPool :
           req = [s \in Slots |->
                     IF s = 1 THEN BeginStep(InitDetector, request, FALSE)
                     ELSE IdleReq]
    /\ IouIdle
    /\ NmsIdle
    /\ EmbedIdle
    /\ RemapIdle

SpecDetect == DetectInit /\ [][DetectNext]_vars

(***************************************************************************)
(* The classifier on its own: detect run on lists of output tensors in     *)
(* many orders.  The tensors are all zero, so no anchor is kept.           *)
(***************************************************************************)
\* anchors of scale i of a one-anchor model: 6400, 1600, 400, 100, 25, ...
ScaleRows(i) == 6400 \div Pow2(2 * (i - 1))

Reverse(n) == [i \in 1..n |-> n + 1 - i]

Rotate(n) == [i \in 1..n |-> (i % n) + 1]

\* orders in which the n tensors of one kind are handed over: every order
\* up to 3 scales, three orders beyond
Orders(n) ==
    IF n <= 3
    THEN {p \in [1..n -> 1..n] : \A i, j \in 1..n : p[i] = p[j] => i = j}
    ELSE {[i \in 1..n |-> i], Reverse(n), Rotate(n)}

KindOrders ==
    {<<1, 4, 10>>, <<1, 10, 4>>, <<4, 1, 10>>, <<4, 10, 1>>, <<10, 1, 4>>, <<10, 4, 1>>}

\* the n tensors with `cols` columns in the order p
KindTensors(n, cols, p) ==
    [i \in 1..n |-> Tensor(<<ScaleRows(p[i]), cols>>, NoHot)]

\* the outputs of a complete n-scale model, one kind after the other
KindMajor(n, ps, pb, pk, ko) ==
    LET g == (1 :> KindTensors(n, 1, ps)) @@ (4 :> KindTensors(n, 4, pb))
             @@ (10 :> KindTensors(n, 10, pk))
    IN  g[ko[1]] \o g[ko[2]] \o g[ko[3]]

\* the outputs of a complete n-scale model, one triple after the other
ScaleMajor(n, ps, pb, pk, ko) ==
    LET g == (1 :> KindTensors(n, 1, ps)) @@ (4 :> KindTensors(n, 4, pb))
             @@ (10 :> KindTensors(n, 10, pk))
    IN  [j \in 1..(3 * n) |-> g[ko[((j - 1) % 3) + 1]][((j - 1) \div 3) + 1]]

CompleteModels ==
    UNION { { KindMajor(n, ps, pb, pk, ko) :
                ps \in Orders(n), pb \in Orders(n), pk \in Orders(n), ko \in KindOrders }
            \cup
            { ScaleMajor(n, ps, pb, pk, ko) :
                ps \in Orders(n), pb \in Orders(n), pk \in Orders(n), ko \in KindOrders } :
            n \in 1..MaxScales }

\* shapes of single tensors: 2-dimensional, with a batch dimension of 1,
\* 1-dimensional, with a trailing dimension that is no kind, with a batch
\* dimension of 2, 0-dimensional
ShapePool ==
    { <<6400, 1>>, <<1600, 1>>, <<1, 400, 1>>, <<6400, 4>>, <<1, 1600, 4>>,
      <<400, 10>>, <<6400>>, <<4>>, <<5, 3>>, <<2, 3, 4>>, <<>> }

ArbitraryLists ==
    UNION { [1..n -> {Tensor(sh, NoHot) : sh \in ShapePool}] : n \in 0..MaxOutputs }

ClassifyPool ==
    { DetectRequest(<<640, 640>>, 0, Zero, out) :
        out \in CompleteModels \cup ArbitraryLists }

ClassifyInit ==
    /\ detector = InitDetector
    /\ failedBefore = FALSE
    /\ \E request \in ClassifyPool :
           req = [s \in Slots |->
                     IF s = 1 THEN BeginStep(InitDetector, request, FALSE)
                     ELSE IdleReq]
    /\ IouIdle
    /\ NmsIdle
    /\ EmbedIdle
    /\ RemapIdle

SpecClassify == ClassifyInit /\ [][DetectNext]_vars

(***************************************************************************)
(* Claims about the classifier.                                            *)
(***************************************************************************)
\* the outputs have been classified and sorted
Classified(rq) == rq.pc \notin {"idle", "classify"} /\ rq.raised # "classify"

\* arr.shape[-1] of the tensor as the network gave it
TrailingDim(arr) == arr.shape[Len(arr.shape)]

\* the trailing dimension the classifier looks at: a 1-dimensional tensor
\* has become a column
SeenDim(arr) == IF Len(arr.shape) = 1 THEN 1 ELSE arr.shape[Len(arr.shape)]

\* the group of the kind with `cols` columns
GroupIn(rq, cols) ==
    IF cols = 1 THEN rq.scores_out ELSE IF cols = 4 THEN rq.bboxes_out ELSE rq.kps_out

\* every group is in descending order of row count, and each entry carries
\* the row count of its tensor
GroupsSorted(rq) ==
    \A cols \in {1, 4, 10} :
        LET g == GroupIn(rq, cols)
        IN  /\ \A i \in 1..Len(g) : g[i][1] = g[i][2].shape[1]
            /\ \A i, j \in 1..Len(g) : i < j => g[i][1] >= g[j][1]

\* the strides the claim states for n scales
ClaimedStrides(n) ==
    IF n = 3 THEN <<8, 16, 32>>
    ELSE IF n = 5 THEN <<8, 16, 32, 64, 128>>
    ELSE [i \in 1..n |-> 8 * Pow2(i - 1)]

\* the strides are those of the claim once topology inference has run
StridesAsClaimed(rq) ==
    (rq.pc \in {"decode", "nms"}) => rq.strides = ClaimedStrides(Len(rq.scores_out))

\* the triples with 6400, 1600 and 400 rows, in some order
NineTensors(rq) ==
    /\ Len(rq.outputs_list) = 9
    /\ {rq.outputs_list[i].shape : i \in 1..9}
          = {<<r, c>> : r \in {6400, 1600, 400}, c \in {1, 4, 10}}

\* the nine tensors yield scales [6400, 1600, 400] and strides [8, 16, 32]
NineTensorsScenario(rq) ==
    NineTensors(rq) =>
        /\ \A cols \in {1, 4, 10} :
               LET g == GroupIn(rq, cols)
               IN  /\ Len(g) = 3
                   /\ <<g[1][1], g[2][1], g[3][1]>> = <<6400, 1600, 400>>
                   /\ \A i \in 1..3 : g[i][2].shape[2] = cols
        /\ rq.pc \in {"topology", "decode", "nms", "convert", "done"}
        /\ rq.pc \in {"decode", "nms"} => rq.strides = <<8, 16, 32>>

\* C5 as claimed: each tensor is put in the score, box or landmark group by
\* its trailing dimension 1, 4 or 10 and ignored otherwise, every group is
\* ordered by row count descending, and the strides are [8,16,32] for 3
\* scales, [8,16,32,64,128] for 5 and 8 * 2^i for scale i otherwise.
C5_ByTrailingDim ==
    \A s \in Slots :
        Classified(req[s]) =>
            /\ \A cols \in {1, 4, 10} :
                   Len(GroupIn(req[s], cols))
                     = Cardinality({i \in 1..Len(req[s].outputs_list) :
                                      TrailingDim(req[s].outputs_list[i]) = cols})
            /\ GroupsSorted(req[s])
            /\ StridesAsClaimed(req[s])
            /\ NineTensorsScenario(req[s])

\* C5 amended: the group is decided by the trailing dimension after a batch
\* dimension of 1 is dropped and a 1-dimensional tensor is made a column, so
\* a 1-dimensional tensor is a score tensor whatever its length; the rest
\* of the claim stands.
C5_BySeenDim ==
    \A s \in Slots :
        Classified(req[s]) =>
            /\ \A cols \in {1, 4, 10} :
                   LET g == GroupIn(req[s], cols)
                       out == req[s].outputs_list
                   IN  /\ Len(g) = Cardinality({i \in 1..Len(out) : SeenDim(out[i]) = cols})
                       /\ \A j \in 1..Len(g) :
                              Cardinality({k \in 1..Len(g) : g[k] = g[j]})
                                = Cardinality({i \in 1..Len(out) :
                                     /\ SeenDim(out[i]) = cols
                                     /\ Normalise(out[i]) = g[j][2]})
            /\ GroupsSorted(req[s])
            /\ StridesAsClaimed(req[s])
            /\ NineTensorsScenario(req[s])

\* the nine tensors, handed over with no group in descending order, have
\* been classified and their topology inferred
C5_Witness ==
    \E s \in Slots :
        /\ NineTensors(req[s])
        /\ req[s].pc = "decode"
        /\ req[s].strides = <<8, 16, 32>>
        /\ \A cols \in {1, 4, 10} :
               LET hits == SelectSeq(req[s].outputs_list,
                                     LAMBDA arr : TrailingDim(arr) = cols)
               IN  hits[1].shape[1] < hits[2].shape[1]
                   \/ hits[2].shape[1] < hits[3].shape[1]

(***************************************************************************)
(* Claims about detect.                                                    *)
(***************************************************************************)
\* the numbers of score, box and landmark tensors classified differ
CountMismatch(rq) ==
    \/ Len(rq.scores_out) # Len(rq.bboxes_out)
    \/ Len(rq.bboxes_out) # Len(rq.kps_out)

\* C4: when the numbers of score, box and landmark tensors differ, detect
\* returns the empty list without entering topology inference, per-scale
\* decoding or NMS and without raising.
C4_MismatchReturnsEmpty ==
    \A s \in Slots :
        CountMismatch(req[s]) =>
            /\ req[s].pc \in {"convert", "done"}
            /\ req[s].ran = {}
            /\ req[s].raised = "no"
            /\ req[s].detections = <<>>
            /\ req[s].pc = "done" =>
                   req[s].response = [code |-> "OK", detections |-> <<>>]

\* a request whose outputs lack one landmark tensor has been answered
C4_Witness ==
    \E s \in Slots :
        /\ CountMismatch(req[s])
        /\ Len(req[s].scores_out) = 3
        /\ req[s].pc = "done"

\* the detections a request holds or has answered with
DetectionsOf(rq) == Range(rq.detections) \cup Range(rq.response.detections)

\* C6 as claimed: every Detection has x1 < x2 and y1 < y2, for every
\* regression output and every letterbox transform.
C6_BoxesProper ==
    \A s \in Slots : \A d \in DetectionsOf(req[s]) :
        d.bbox[1] < d.bbox[3] /\ d.bbox[2] < d.bbox[4]

\* every regression output the network gave has dx1 + dx2 >= 0 and
\* dy1 + dy2 >= 0
RegressionNotInverted(rq) ==
    \A t \in 1..Len(rq.outputs_list) :
        \A i \in DOMAIN rq.outputs_list[t].hot :
            LET row == rq.outputs_list[t].hot[i]
            IN  Len(row) = 4 => row[1] + row[3] >= 0 /\ row[2] + row[4] >= 0

\* C6 amended: when no regression output is inverted, every Detection has
\* x1 <= x2 and y1 <= y2; the clamps can make the corners equal.
C6_BoxesNotInverted ==
    \A s \in Slots :
        RegressionNotInverted(req[s]) =>
            \A d \in DetectionsOf(req[s]) :
                d.bbox[1] <= d.bbox[3] /\ d.bbox[2] <= d.bbox[4]

\* a request was answered with a box that the clamp to the resized bounds
\* has collapsed, although its regression output has positive extent
C6_Witness ==
    \E s \in Slots :
        /\ req[s].pc = "done"
        /\ RegressionNotInverted(req[s])
        /\ \E d \in Range(req[s].response.detections) :
               d.bbox[2] = d.bbox[4] /\ d.bbox[1] < d.bbox[3]
        /\ \E t \in 1..Len(req[s].outputs_list) :
               \E i \in DOMAIN req[s].outputs_list[t].hot :
                   LET row == req[s].outputs_list[t].hot[i]
                   IN  Len(row) = 4 /\ row[2] + row[4] > 0

\* the anchors <<scale, i>> of the scales decoded so far whose score reaches
\* the confidence threshold
KeptAnchors(rq) ==
    UNION { { <<sc, i>> : i \in { j \in DOMAIN rq.scores_out[sc][2].hot :
                                    rq.scores_out[sc][2].hot[j][1] >= rq.conf_threshold } } :
            sc \in 1..(rq.scale_idx - 1) }

\* box and confidence of anchor i of scale sc as the claim states them
C10_Expected(rq, sc, i) ==
    LET s == rq.strides[sc]
        g == 640 \div s
        a == rq.num_anchors
        cx == ((2 * ((i \div a) % g) + 1) * s) \div 2
        cy == ((2 * ((i \div a) \div g) + 1) * s) \div 2
        reg == RowAt(rq.bboxes_out[sc][2], i)
        p1 == _transform_coords_to_original(
                  cx - reg[1] * s, cy - reg[2] * s, rq.transform_info,
                  rq.request.image[1], rq.request.image[2])
        p2 == _transform_coords_to_original(
                  cx + reg[3] * s, cy + reg[4] * s, rq.transform_info,
                  rq.request.image[1], rq.request.image[2])
    IN  [bbox |-> <<p1[1], p1[2], p2[1], p2[2]>>,
         confidence |-> rq.scores_out[sc][2].hot[i][1]]

\* the request of the scenario: one anchor at cell (0,0), stride 8,
\* regression (1,1,1,1), score 0.9, threshold 0.5, a 640x640 image
C10_Scenario(rq) ==
    /\ rq.request.image = <<640, 640>>
    /\ rq.request.outputs = TinyOutputs
    /\ rq.conf_threshold = 50

\* C10: the decoder places every kept anchor i of a scale with stride s at
\* cx = ((i div a) mod g + 0.5) * s, cy = ((i div a) div g + 0.5) * s with
\* g = 640 / s, decodes the box (cx - dx1*s, cy - dy1*s, cx + dx2*s,
\* cy + dy2*s) and remaps each corner; the scenario yields exactly one
\* Detection with bbox (0, 0, 12, 12) and confidence 0.9.
C10_DecodeFormula ==
    \A s \in Slots :
        /\ (req[s].pc \in {"decode", "nms"} /\ req[s].raised = "no") =>
               /\ Len(req[s].detections) = Cardinality(KeptAnchors(req[s]))
               /\ { [bbox |-> d.bbox, confidence |-> d.confidence] :
                        d \in Range(req[s].detections) }
                  = { C10_Expected(req[s], k[1], k[2]) : k \in KeptAnchors(req[s]) }
        /\ (req[s].pc = "done" /\ C10_Scenario(req[s])) =>
               /\ req[s].response.code = "OK"
               /\ Len(req[s].response.detections) = 1
               /\ req[s].response.detections[1].bbox = <<0, 0, Px(12), Px(12)>>
               /\ req[s].response.detections[1].confidence = 90

\* the scenario has been answered, and some request has decoded an anchor
\* away from cell (0,0) with two anchors per position
C10_Witness ==
    \E s \in Slots :
        /\ req[s].pc = "done"
        /\ C10_Scenario(req[s])
        /\ Len(req[s].response.detections) = 1

\* an anchor with row and column above 0 and two anchors per position has
\* been decoded
C10_WitnessGrid ==
    \E s \in Slots :
        /\ req[s].pc = "nms"
        /\ req[s].num_anchors = 2
        /\ \E k \in KeptAnchors(req[s]) : k[2] = 171
        /\ Len(req[s].detections) = 1

(***************************************************************************)
(* Claims about the service.                                               *)
(***************************************************************************)
\* C8: when decoding fails at a scale, detect returns no partial list,
\* DetectFaces answers that request with status INTERNAL and no detections,
\* the failure stays inside the handler, and a request served after a
\* failure gets the response it would get from a fresh servicer.
C8_DecodeFailureIsPerCall ==
    \A s \in Slots :
        /\ req[s].raised = "decode" =>
               /\ req[s].pc = "done"
               /\ "nms" \notin req[s].ran
               /\ req[s].response = [code |-> "INTERNAL", detections |-> <<>>]
        /\ (req[s].pc = "done" /\ req[s].after_failure) =>
               req[s].response = AloneResponse(req[s].request)

\* a request failed at scale 2 with the detections of scale 1 in hand, and
\* a request begun after a failure has been answered with detections
C8_Witness ==
    \E s, t \in Slots :
        /\ req[s].raised = "decode"
        /\ req[s].scale_idx = 2
        /\ Len(req[s].detections) >= 1
        /\ req[t].pc = "done"
        /\ req[t].after_failure
        /\ req[t].response.code = "OK"
        /\ Len(req[t].response.detections) >= 1

\* C9: detect leaves conf_threshold, nms_threshold, input size and output
\* names of the detector unchanged, and under every interleaving each
\* request gets the response it would get running alone.
C9_NoSharedWrites ==
    /\ detector = InitDetector
    /\ \A s \in Slots :
           req[s].pc = "done" => req[s].response = AloneResponse(req[s].request)

\* two requests for the same outputs are answered at the same time: the one
\* that lowered the confidence threshold with a detection, the other,
\* which set no threshold, with none
C9_Witness ==
    \E s, t \in Slots :
        /\ s # t
        /\ req[s].pc = "done"
        /\ req[t].pc = "done"
        /\ req[s].request.outputs = req[t].request.outputs
        /\ req[s].request.confidence_threshold > 0
        /\ req[t].request.confidence_threshold = 0
        /\ Len(req[s].response.detections) = 1
        /\ req[t].response.detections = <<>>
        /\ req[t].response.code = "OK"

(***************************************************************************)
(* ExtractEmbedding on its own: one handler at a time, landmark lists of   *)
(* up to MaxLandmarks points.                                              *)
(***************************************************************************)
PointPool == { <<0, 0>>, <<1, 1>>, <<2, 2>>, <<3, 3>>, <<4, 4>>, <<2, 0>>, <<0, 2>> }

LandmarkLists == UNION { [1..n -> PointPool] : n \in 0..MaxLandmarks }

EmbedInit ==
    /\ EmbedIdle
    /\ RemapIdle
    /\ ServeIdle
    /\ IouIdle
    /\ NmsIdle

\* the handler is entered with some list of landmarks
EmbedBegin ==
    /\ emb.pc = "idle"
    /\ \E landmarks \in LandmarkLists : emb' = EmbedBeginStep(landmarks)
    /\ UNCHANGED <<iouVars, nmsVars, serveVars, remapVars>>

Align ==
    /\ emb.pc = "align"
    /\ emb' = AlignStep(emb)
    /\ UNCHANGED <<iouVars, nmsVars, serveVars, remapVars>>

Infer ==
    /\ emb.pc = "infer"
    /\ emb' = InferStep(emb)
    /\ UNCHANGED <<iouVars, nmsVars, serveVars, remapVars>>

EmbedRespond ==
    /\ emb.pc = "respond"
    /\ emb' = EmbedRespondStep(emb)
    /\ UNCHANGED <<iouVars, nmsVars, serveVars, remapVars>>

EmbedFinish ==
    /\ emb.pc = "done"
    /\ emb' = IdleEmb
    /\ UNCHANGED <<iouVars, nmsVars, serveVars, remapVars>>

EmbedNext ==
    \/ EmbedBegin
    \/ Align
    \/ Infer
    \/ EmbedRespond
    \/ EmbedFinish

SpecEmbed == EmbedInit /\ [][EmbedNext]_vars

(***************************************************************************)
(* Claims about the aligner.                                               *)
(***************************************************************************)
\* the landmark input is fewer than 5 points, or 5 collinear points
DegenerateLandmarks(landmarks) ==
    \/ Len(landmarks) < 5
    \/ Len(landmarks) = 5 /\ Collinear(landmarks)

\* C7: when the landmark input has fewer than 5 points or its 5 points are
\* collinear, no aligned face is produced, the recognition network is not
\* run, and ExtractEmbedding reports an error instead of an embedding.
C7_DegenerateLandmarksFail ==
    (emb.pc # "idle" /\ DegenerateLandmarks(emb.landmarks)) =>
        /\ ~emb.aligned
        /\ ~emb.inferred
        /\ emb.pc = "done" => emb.response = [code |-> "INTERNAL", embedding |-> FALSE]

(***************************************************************************)
(* preprocess, _transform_coords_to_original and detect on one image.      *)
(***************************************************************************)
\* images whose longer side is 320, 640 or 1280: scale is 2, 1 or 0.5, so
\* scale * max(h, w) = 640, w * scale, h * scale and every division by
\* scale are exact in floating point; both orientations, even and odd
\* shorter sides
RemapImages ==
    { <<640, 640>>, <<1280, 720>>, <<720, 1280>>, <<480, 640>>, <<320, 101>>,
      <<101, 320>>, <<1280, 333>>, <<333, 1280>>, <<1280, 1279>>, <<320, 320>> }

\* the corners of the 640x640 canvas
CanvasCorners ==
    <<<<0, 0>>, <<InputSide, 0>>, <<0, InputSide>>, <<InputSide, InputSide>>>>

\* coordinates left of the canvas, inside the padding, inside the resized
\* image and right of the canvas
RemapCoords == { 0 - 100, 1, 150, 320, 800 }

\* the lists of points a run hands to the remapper
RemapPointLists ==
    {CanvasCorners} \cup {<<<<x, y>>>> : x \in RemapCoords, y \in RemapCoords}

\* one-scale outputs with one face at the first cell, at row 1 column 5 or
\* at the last cell, whose box and landmarks reach over the canvas edge
RemapOutputs ==
    { OneScale(6400, i, 90, b, k) :
        i \in {0, 85, 6399},
        b \in { <<1, 1, 1, 1>>, <<MaxReg, 0, MaxReg, 0 - 1>> },
        k \in KpsRows }

RemapInit ==
    /\ remapImage \in RemapImages
    /\ remapInfo = NoTransform
    /\ remapPoints = <<>>
    /\ remapResults = <<>>
    /\ remapCalled = FALSE
    /\ remapDets = <<>>
    /\ IouIdle
    /\ NmsIdle
    /\ ServeIdle
    /\ EmbedIdle

\* input_data, transform_info = self.preprocess(image)
RemapPreprocess ==
    /\ remapInfo = NoTransform
    /\ remapInfo' = preprocess(remapImage, InitDetector.input_size)
    /\ UNCHANGED <<remapImage, remapPoints, remapResults, remapCalled, remapDets,
                   iouVars, nmsVars, serveVars, embVars>>

\* _transform_coords_to_original called on each point of a list
RemapCall(points) ==
    /\ remapInfo # NoTransform
    /\ remapPoints = <<>>
    /\ remapPoints' = points
    /\ remapResults' =
           [k \in DOMAIN points |->
               _transform_coords_to_original(points[k][1], points[k][2], remapInfo,
                                             remapImage[1], remapImage[2])]
    /\ UNCHANGED <<remapImage, remapInfo, remapCalled, remapDets,
                   iouVars, nmsVars, serveVars, embVars>>

\* detect called on the image, the network answering with outputs
RemapDetect(outputs) ==
    /\ remapInfo # NoTransform
    /\ ~remapCalled
    /\ remapCalled' = TRUE
    /\ remapDets' = AloneResponse(DetectRequest(remapImage, 0, Zero, outputs)).detections
    /\ UNCHANGED <<remapImage, remapInfo, remapPoints, remapResults,
                   iouVars, nmsVars, serveVars, embVars>>

RemapNext ==
    \/ RemapPreprocess
    \/ \E points \in RemapPointLists : RemapCall(points)
    \/ \E outputs \in RemapOutputs : RemapDetect(outputs)

SpecRemap == RemapInit /\ [][RemapNext]_vars

(***************************************************************************)
(* Claims about the letterbox and the remapper.                            *)
(***************************************************************************)
\* scale * max(H, W) = 640 exactly
ScaleExact(info) ==
    info.scale[1] * Max(info.original_height, info.original_width)
        = InputSide * info.scale[2]

\* C11: for every image with scale * max(H, W) = 640 exactly, preprocess
\* followed by the remap of the canvas corners (0,0), (640,0), (0,640),
\* (640,640) yields exactly the image corners (0,0), (W,0), (0,H), (W,H).
C11_CornersReproduced ==
    (remapPoints = CanvasCorners /\ ScaleExact(remapInfo)) =>
        remapResults = << <<0, 0>>,
                          <<Px(remapImage[1]), 0>>,
                          <<0, Px(remapImage[2])>>,
                          <<Px(remapImage[1]), Px(remapImage[2])>> >>

\* max(lo, min(v, hi))
Clamp(v, lo, hi) == Max(lo, Min(v, hi))

\* the four steps the claim lists, for one axis
C13_Axis(v, offset, resized, scale, original) ==
    Clamp(DivideByScale(Clamp(v - offset, 0, resized), scale), 0, Px(original))

\* the four steps the claim lists, for a point
C13_Steps(p, info) ==
    <<C13_Axis(p[1], info.x_offset, info.resized_width, info.scale,
               info.original_width),
      C13_Axis(p[2], info.y_offset, info.resized_height, info.scale,
               info.original_height)>>

\* p lies in [0, original_width] x [0, original_height]
WithinImage(p, image) ==
    /\ 0 <= p[1] /\ p[1] <= Px(image[1])
    /\ 0 <= p[2] /\ p[2] <= Px(image[2])

\* the box corners and the landmarks of a detection
PointsOf(d) ==
    {<<d.bbox[1], d.bbox[2]>>, <<d.bbox[3], d.bbox[4]>>} \cup Range(d.landmarks)

\* C13: for every square-space point, points outside the padded canvas
\* included, and every TransformInfo of preprocess, the remapper subtracts
\* the offsets, clamps to the resized bounds, divides by scale and clamps to
\* the original bounds, so its result lies in [0, W] x [0, H]; every box
\* corner and landmark of every Detection detect returns lies in there too.
C13_RemapWithinBounds ==
    /\ \A k \in DOMAIN remapResults :
           /\ remapResults[k] = C13_Steps(remapPoints[k], remapInfo)
           /\ WithinImage(remapResults[k], remapImage)
    /\ \A d \in Range(remapDets) :
           /\ Len(d.landmarks) = 5
           /\ \A p \in PointsOf(d) : WithinImage(p, remapImage)

\* on an image padded above and below, a point left of and below the canvas
\* has been remapped to the lower left image corner, and detect has
\* returned a face whose box was cut at the left image edge
C13_Witness ==
    /\ remapInfo.y_offset > 0
    /\ Len(remapPoints) = 1
    /\ remapPoints[1][1] < 0
    /\ remapPoints[1][2] > InputSide
    /\ remapResults[1] = <<0, Px(remapImage[2])>>
    /\ Len(remapDets) = 1
    /\ remapDets[1].bbox[1] = 0
    /\ remapDets[1].bbox[3] > 0

====
